---------------------------- MODULE Spec2Model ----------------------------
(***************************************************************************)
(* The training callbacks of skorch/callbacks/training.py as state         *)
(* machines: EarlyStopping (SpecES) and ParamMapper (SpecPM).  The host     *)
(* training loop is the environment: it calls the hooks and supplies the   *)
(* net (history, verbose, module parameters) they read.                    *)
(*                                                                         *)
(* Numbers.  Scores are integers (in some unit of the monitored metric).   *)
(* threshold is the rational es.threshold / Den, and dynamic_threshold_    *)
(* is held in units of 1/Den, so that threshold * score is exact:          *)
(* a score s is compared with a threshold value v as  s * Den < v.         *)
(***************************************************************************)
EXTENDS Integers, Sequences, FiniteSets, TLC

\* ------------------------------------------------------------------ bounds
MaxEpochs == 3
MaxCalls == 3
MaxPatience == 2
MaxThreshold == 2
Den == 2

Scores == {-5, 0, 5, 6, 7}
ThresholdModes == {"rel", "abs", "exp"}
Sinks == {"print", "logger"}

VARIABLES
    es,         \* the EarlyStopping instance (its attributes)
    history,    \* net.history: the sequence of epoch records
    verbose,    \* net.verbose
    hook,       \* the hook the host called last
    raised,     \* what that call raised ("none" when it returned)
    sunk,       \* the texts the sink has received
    begun_at,   \* len(net.history) at the last on_train_begin that returned
    pm,         \* the ParamMapper instance (its attributes)
    initialized,\* pm.initialize() has returned
    params,     \* net.module_.named_parameters(): <<name, parameter>> in order
    applied,    \* the calls map_fn(p) of the last on_epoch_begin, in order
    calls,      \* per on_epoch_begin so far: len(net.history) and map_fn
    cp,         \* the Checkpoint instance (its attributes)
    saved       \* the calls of save_model so far: the epoch and the targets

esvars == <<es, verbose, sunk, begun_at>>
pmvars == <<pm, initialized, params, applied, calls>>
cpvars == <<cp, saved>>
vars == <<es, history, verbose, hook, raised, sunk, begun_at,
          pm, initialized, params, applied, calls, cp, saved>>

\* ------------------------------------------------------------ net.history
\* An epoch record maps keys to values; the monitored key may be absent.
NoKeys == [k \in {} |-> 0]
Record(key, value) == [k \in {key} |-> value]
EpochRecords == {NoKeys} \cup {Record("valid_loss", s) : s \in Scores}

\* --------------------------------------------------------- EarlyStopping
None == [kind |-> "None", val |-> 0]
PosInf == [kind |-> "inf", val |-> 0]
NegInf == [kind |-> "-inf", val |-> 0]
Num(v) == [kind |-> "num", val |-> v]

\* __init__: the instance after construction
EarlyStopping_init(patience, threshold, threshold_mode, lower_is_better, sink) ==
    [monitor |-> "valid_loss",
     lower_is_better |-> lower_is_better,
     patience |-> patience,
     threshold |-> threshold,
     threshold_mode |-> threshold_mode,
     misses_ |-> 0,
     dynamic_threshold_ |-> None,
     sink |-> sink]

\* A variant that counts a score equal to the threshold as improved
_is_score_improved_or_tied(self, score) ==
    LET t == self.dynamic_threshold_ IN
    IF self.lower_is_better
    THEN t.kind = "inf" \/ (t.kind = "num" /\ score * Den <= t.val)
    ELSE t.kind = "-inf" \/ (t.kind = "num" /\ score * Den >= t.val)

\* score < self.dynamic_threshold_ / score > self.dynamic_threshold_
_is_score_improved(self, score) ==
    LET t == self.dynamic_threshold_ IN
    IF self.lower_is_better
    THEN t.kind = "inf" \/ (t.kind = "num" /\ score * Den < t.val)
    ELSE t.kind = "-inf" \/ (t.kind = "num" /\ score * Den > t.val)

\* A variant that subtracts the change whatever the direction
_calc_new_threshold_subtracts(self, score) ==
    LET abs_threshold_change ==
            IF self.threshold_mode = "rel"
            THEN self.threshold * score
            ELSE self.threshold
    IN  Num(score * Den - abs_threshold_change)

_calc_new_threshold(self, score) ==
    LET abs_threshold_change ==
            IF self.threshold_mode = "rel"
            THEN self.threshold * score
            ELSE self.threshold
    IN  IF self.lower_is_better
        THEN Num(score * Den - abs_threshold_change)
        ELSE Num(score * Den + abs_threshold_change)

\* _sink(text, verbose): what the sink holds after the call, snk before it
EarlyStopping_sink(self, snk, text, verb) ==
    IF self.sink # "print" \/ verb THEN Append(snk, text) ELSE snk

StopText(self) == <<"Stopping since", self.monitor, self.patience>>

\* A variant that resets the state before it validates threshold_mode
EarlyStopping_train_begin_reset_first(self) ==
    [self |-> [self EXCEPT !.misses_ = 0,
                           !.dynamic_threshold_ =
                               IF self.lower_is_better THEN PosInf ELSE NegInf],
     raised |-> IF self.threshold_mode \notin {"rel", "abs"}
                THEN "ValueError" ELSE "none"]

\* A variant that keeps the threshold an earlier run left
EarlyStopping_train_begin_keeps_threshold(self) ==
    IF self.threshold_mode \notin {"rel", "abs"}
    THEN [self |-> self, raised |-> "ValueError"]
    ELSE [self |-> [self EXCEPT !.misses_ = 0,
                                !.dynamic_threshold_ =
                                    IF self.dynamic_threshold_.kind = "num"
                                    THEN self.dynamic_threshold_
                                    ELSE IF self.lower_is_better
                                    THEN PosInf ELSE NegInf],
          raised |-> "none"]

\* on_train_begin: the instance after the call, and what the call raised
EarlyStopping_train_begin(self) ==
    IF self.threshold_mode \notin {"rel", "abs"}
    THEN [self |-> self, raised |-> "ValueError"]
    ELSE [self |-> [self EXCEPT !.misses_ = 0,
                                !.dynamic_threshold_ =
                                    IF self.lower_is_better THEN PosInf ELSE NegInf],
          raised |-> "none"]

EarlyStopping_on_train_begin ==
    /\ hook' = "on_train_begin"
    /\ LET out == EarlyStopping_train_begin(es) IN
         /\ es' = out.self
         /\ raised' = out.raised
         /\ begun_at' = IF out.raised = "none" THEN Len(history) ELSE begun_at
    /\ UNCHANGED <<history, verbose, sunk, pmvars, cpvars>>

\* net.history[-1, key]: the lookup fails with KeyError when the key is absent
history_lookup(rec, key) ==
    IF key \in DOMAIN rec
    THEN [raised |-> "none", value |-> rec[key]]
    ELSE [raised |-> "KeyError", value |-> 0]

\* A variant that does not reset misses_ on an improvement
EarlyStopping_update_off_by_reset(self, current_score) ==
    IF ~ _is_score_improved(self, current_score)
    THEN [self EXCEPT !.misses_ = @ + 1]
    ELSE [self EXCEPT !.dynamic_threshold_ = _calc_new_threshold(self, current_score)]

\* A variant that recentres the threshold on every epoch
EarlyStopping_update_always_recentres(self, current_score) ==
    IF ~ _is_score_improved(self, current_score)
    THEN [self EXCEPT !.misses_ = @ + 1,
                      !.dynamic_threshold_ = _calc_new_threshold(self, current_score)]
    ELSE [self EXCEPT !.misses_ = 0,
                      !.dynamic_threshold_ = _calc_new_threshold(self, current_score)]

\* Lines 248-252: the instance after the miss count and threshold update
EarlyStopping_update(self, current_score) ==
    IF ~ _is_score_improved(self, current_score)
    THEN [self EXCEPT !.misses_ = @ + 1]
    ELSE [self EXCEPT !.misses_ = 0,
                      !.dynamic_threshold_ = _calc_new_threshold(self, current_score)]

\* A variant that stops only once patience is exceeded
EarlyStopping_patience_exceeded(self) == self.misses_ > self.patience

\* Line 253: the stop condition
EarlyStopping_patience_reached(self) == self.misses_ = self.patience

\* Lines 253-258: the message and the stop signal
EarlyStopping_check_patience(self, verb, snk) ==
    IF EarlyStopping_patience_reached(self)
    THEN [self |-> self,
          sunk |-> IF verb
                   THEN EarlyStopping_sink(self, snk, StopText(self), verb)
                   ELSE snk,
          raised |-> "KeyboardInterrupt"]
    ELSE [self |-> self, sunk |-> snk, raised |-> "none"]

\* A variant that counts an epoch without the monitored value as a miss
EarlyStopping_epoch_end_missing_is_miss(self, rec, verb, snk) ==
    LET current_score == history_lookup(rec, self.monitor) IN
    IF self.dynamic_threshold_.kind = "None"
    THEN [self |-> self, sunk |-> snk, raised |-> "TypeError"]
    ELSE IF current_score.raised # "none"
    THEN EarlyStopping_check_patience([self EXCEPT !.misses_ = @ + 1], verb, snk)
    ELSE EarlyStopping_check_patience(
             EarlyStopping_update(self, current_score.value), verb, snk)

\* on_epoch_end on the record rec of the epoch that ended: the instance and
\* the sink after the call, and what the call raised.  Comparing a score
\* with the None that __init__ leaves in dynamic_threshold_ is a TypeError.
EarlyStopping_epoch_end(self, rec, verb, snk) ==
    LET current_score == history_lookup(rec, self.monitor) IN
    IF current_score.raised # "none"
    THEN [self |-> self, sunk |-> snk, raised |-> current_score.raised]
    ELSE IF self.dynamic_threshold_.kind = "None"
    THEN [self |-> self, sunk |-> snk, raised |-> "TypeError"]
    ELSE EarlyStopping_check_patience(
             EarlyStopping_update(self, current_score.value), verb, snk)

\* The host appended rec = net.history[-1] before it calls the hook.
EarlyStopping_on_epoch_end(rec) ==
    /\ Len(history) < MaxEpochs
    /\ history' = Append(history, rec)
    /\ hook' = "on_epoch_end"
    /\ LET out == EarlyStopping_epoch_end(es, rec, verbose, sunk) IN
         /\ es' = out.self
         /\ sunk' = out.sunk
         /\ raised' = out.raised
    /\ UNCHANGED <<verbose, begun_at, pmvars, cpvars>>

\* ----------------------------------------------------------- ParamMapper
\* Names and glob patterns are sequences of characters.
linear_weight == <<"l","i","n","e","a","r",".","w","e","i","g","h","t">>
linear_bias == <<"l","i","n","e","a","r",".","b","i","a","s">>
conv_weight == <<"c","o","n","v",".","w","e","i","g","h","t">>
linear_star_weight == <<"l","i","n","e","a","r","*",".","w","e","i","g","h","t">>
linear_dot_star == <<"l","i","n","e","a","r",".","*">>
star_weight == <<"*",".","w","e","i","g","h","t">>
star_bias == <<"*",".","b","i","a","s">>
dense_q == <<"d","e","n","s","e","?">>
linear == <<"l","i","n","e","a","r">>

\* fnmatch(name, pat) for patterns of literals, '*' and '?'
RECURSIVE fnmatch(_, _)
fnmatch(name, pat) ==
    IF pat = <<>> THEN name = <<>>
    ELSE IF Head(pat) = "*"
         THEN \/ fnmatch(name, Tail(pat))
              \/ (name # <<>> /\ fnmatch(Tail(name), pat))
    ELSE /\ name # <<>>
         /\ (Head(pat) = "?" \/ Head(pat) = Head(name))
         /\ fnmatch(Tail(name), Tail(pat))

\* A pattern is a glob string or a callable over the name.
Glob(pat) == [callable |-> FALSE, pat |-> pat]
\* lambda name: name.startswith('linear')
StartsWithLinear == [callable |-> TRUE, pat |-> linear]

\* pattern if callable(pattern) else partial(fnmatch, pat=pattern), applied
pattern_fn(pattern, name) ==
    IF pattern.callable
    THEN Len(name) >= Len(pattern.pat)
            /\ SubSeq(name, 1, Len(pattern.pat)) = pattern.pat
    ELSE fnmatch(name, pattern.pat)

\* The patterns argument: one pattern (list FALSE) or a list of patterns
One(pattern) == [list |-> FALSE, items |-> <<pattern>>]
List(patterns) == [list |-> TRUE, items |-> patterns]

\* The at argument: an int, or a callable over the net; initialize turns an
\* int into partial(self._epoch_at, epoch=at).
IntAt(k) == [kind |-> "int", epoch |-> k]
EpochAt(k) == [kind |-> "partial_epoch_at", epoch |-> k]
\* at = lambda net: len(net.history) % 2 == 0
EvenEpoch == [kind |-> "callable", epoch |-> 0]

\* __init__
ParamMapper_init(patterns, fn, at, schedule) ==
    [at |-> at, fn |-> fn, schedule |-> schedule, patterns |-> patterns]

\* Freezer.__init__: at defaults to 1 and fn to freeze_parameter
Freezer_init(patterns) ==
    ParamMapper_init(patterns, "freeze_parameter", IntAt(1), "None")

\* A variant of initialize that rejects only negative epochs
ParamMapper_initialize_allows_zero(self) ==
    LET s1 == IF self.schedule = "None"
              THEN [self EXCEPT !.schedule = "_default_schedule"] ELSE self
        s2 == IF ~ s1.patterns.list
              THEN [s1 EXCEPT !.patterns.list = TRUE] ELSE s1
    IN  IF s2.at.kind = "int"
        THEN IF s2.at.epoch < 0
             THEN [self |-> s2, raised |-> "ValueError"]
             ELSE [self |-> [s2 EXCEPT !.at = EpochAt(s2.at.epoch)],
                   raised |-> "none"]
        ELSE [self |-> s2, raised |-> "none"]

\* initialize: the instance after the call, and what the call raised
ParamMapper_initialize(self) ==
    LET s1 == IF self.schedule = "None"
              THEN [self EXCEPT !.schedule = "_default_schedule"] ELSE self
        s2 == IF ~ s1.patterns.list
              THEN [s1 EXCEPT !.patterns.list = TRUE] ELSE s1
    IN  IF s2.at.kind = "int"
        THEN IF s2.at.epoch <= 0
             THEN [self |-> s2, raised |-> "ValueError"]
             ELSE [self |-> [s2 EXCEPT !.at = EpochAt(s2.at.epoch)],
                   raised |-> "none"]
        ELSE [self |-> s2, raised |-> "none"]

\* A variant without the test of the name: every pair of the product
filter_parameters_unfiltered(patterns, ps) ==
    [k \in 1..(Len(patterns) * Len(ps)) |-> ((k - 1) % Len(ps)) + 1]

\* product(pattern_fns, params), filtered: the matches, the patterns outermost
filter_parameters(patterns, ps) ==
    LET n == Len(ps)
        pairs == [k \in 1..(Len(patterns) * n) |->
                     [pattern |-> patterns[((k - 1) \div n) + 1],
                      index |-> ((k - 1) % n) + 1]]
        hits == SelectSeq(pairs,
                    LAMBDA pr : pattern_fn(pr.pattern, ps[pr.index].name))
    IN  [i \in 1..Len(hits) |-> hits[i].index]

\* A variant that holds from the epoch on
_epoch_at_or_later(hist, epoch) == Len(hist) >= epoch

_epoch_at(hist, epoch) == Len(hist) = epoch

\* self.at(net)
at_call(at, hist) ==
    IF at.kind = "partial_epoch_at"
    THEN _epoch_at(hist, at.epoch)
    ELSE Len(hist) % 2 = 0

_default_schedule(self, hist) ==
    IF at_call(self.at, hist) THEN self.fn ELSE "noop"

\* schedule = my_sched of the class docstring
my_sched(hist) ==
    IF Len(hist) % 2 = 0 THEN "freeze_parameter" ELSE "unfreeze_parameter"

\* self.schedule(net)
schedule_call(self, hist) ==
    IF self.schedule = "_default_schedule"
    THEN _default_schedule(self, hist)
    ELSE my_sched(hist)

\* map_fn(p): freeze_parameter, unfreeze_parameter or noop on one parameter
map_fn_call(map_fn, p) ==
    IF map_fn = "freeze_parameter" THEN [p EXCEPT !.requires_grad = FALSE]
    ELSE IF map_fn = "unfreeze_parameter" THEN [p EXCEPT !.requires_grad = TRUE]
    ELSE p

\* for _, p in params: map_fn(p)
RECURSIVE map_over(_, _, _)
map_over(map_fn, matched, ps) ==
    IF matched = <<>> THEN ps
    ELSE map_over(map_fn, Tail(matched),
                  [ps EXCEPT ![Head(matched)] = map_fn_call(map_fn, @)])

\* The host calls initialize() on a callback before it calls its hooks.
ParamMapper_do_initialize ==
    /\ hook' = "initialize"
    /\ LET out == ParamMapper_initialize(pm) IN
         /\ pm' = out.self
         /\ raised' = out.raised
         /\ initialized' = (initialized \/ out.raised = "none")
    /\ UNCHANGED <<history, params, applied, calls, esvars, cpvars>>

\* hist is net.history at the call: the hook reads its length only.
ParamMapper_on_epoch_begin(hist) ==
    /\ initialized
    /\ Len(calls) < MaxCalls
    /\ hook' = "on_epoch_begin"
    /\ raised' = "none"
    /\ history' = hist
    /\ LET matched == filter_parameters(pm.patterns.items, params)
           map_fn == schedule_call(pm, hist)
       IN  /\ params' = map_over(map_fn, matched, params)
           /\ applied' = [i \in 1..Len(matched) |->
                             <<map_fn, params[matched[i]].name>>]
           /\ calls' = Append(calls, [epoch |-> Len(hist), map_fn |-> map_fn])
    /\ UNCHANGED <<pm, initialized, esvars, cpvars>>

\* ------------------------------------------------------------ Checkpoint
\* A Python bool is the int 1 or 0; a value is truthy when it is not 0.
\* The monitor argument: None, a key of the history, or a callable.
MonitorNone == [kind |-> "None", key |-> ""]
MonitorKey(key) == [kind |-> "str", key |-> key]
\* monitor = lambda net: all(net.history[-1, ('train_loss_best',
\* 'valid_loss_best')]) of the class docstring
MonitorAllBest == [kind |-> "callable", key |-> ""]

\* __init__ with the default targets
Checkpoint_init(monitor, sink) ==
    [monitor |-> monitor,
     f_params |-> "params.pt",
     f_history |-> "None",
     f_pickle |-> "None",
     sink |-> sink]

\* net.history.record(key, value): the value is stored in the last record
history_record(hist, key, value) ==
    LET rec == hist[Len(hist)] IN
    [hist EXCEPT ![Len(hist)] =
        [k \in DOMAIN rec \cup {key} |-> IF k = key THEN value ELSE rec[k]]]

\* monitor(net) for MonitorAllBest
monitor_call(hist) ==
    LET train == history_lookup(hist[Len(hist)], "train_loss_best")
        valid == history_lookup(hist[Len(hist)], "valid_loss_best")
    IN  IF train.raised # "none" \/ valid.raised # "none"
        THEN [raised |-> "KeyError", value |-> 0]
        ELSE [raised |-> "none",
              value |-> IF train.value # 0 /\ valid.value # 0 THEN 1 ELSE 0]

\* A variant that takes a missing monitor value for False
Checkpoint_do_checkpoint_missing_is_false(self, hist) ==
    IF self.monitor.kind = "None" THEN [raised |-> "none", value |-> 1]
    ELSE IF self.monitor.kind = "callable" THEN monitor_call(hist)
    ELSE [raised |-> "none",
          value |-> history_lookup(hist[Len(hist)], self.monitor.key).value]

\* Lines 130-141: do_checkpoint, or the exception raised
Checkpoint_do_checkpoint(self, hist) ==
    IF self.monitor.kind = "None" THEN [raised |-> "none", value |-> 1]
    ELSE IF self.monitor.kind = "callable" THEN monitor_call(hist)
    ELSE LET got == history_lookup(hist[Len(hist)], self.monitor.key) IN
         IF got.raised = "KeyError"
         THEN [raised |-> "SkorchException", value |-> 0]
         ELSE got

\* save_model: the targets that are set are written
Checkpoint_save_model(self, hist, svd) ==
    Append(svd, [epoch |-> Len(hist),
                 targets |-> {f \in {self.f_params, self.f_history, self.f_pickle} :
                                 f # "None"}])

\* _sink(text, verbose): what the sink holds after the call, snk before it
Checkpoint_sink(self, snk, text, verb) ==
    IF self.sink # "print" \/ verb THEN Append(snk, text) ELSE snk

CheckpointText(hist) == <<"A checkpoint was triggered in epoch", Len(hist) + 1>>

\* A variant that records whether do_checkpoint is the value True
Checkpoint_event_flag_is_true(do_checkpoint) == do_checkpoint = 1

\* bool(do_checkpoint)
Checkpoint_event_flag(do_checkpoint) == do_checkpoint # 0

\* on_epoch_end on the history hist (its last record is the epoch that
\* ended): the history, the sink and the saves after the call
Checkpoint_epoch_end(self, hist, verb, snk, svd) ==
    LET do_checkpoint == Checkpoint_do_checkpoint(self, hist) IN
    IF do_checkpoint.raised # "none"
    THEN [history |-> hist, sunk |-> snk, saved |-> svd,
          raised |-> do_checkpoint.raised]
    ELSE [history |-> history_record(hist, "event_cp",
                          Checkpoint_event_flag(do_checkpoint.value)),
          sunk |-> IF do_checkpoint.value # 0
                   THEN Checkpoint_sink(self, snk, CheckpointText(hist), verb)
                   ELSE snk,
          saved |-> IF do_checkpoint.value # 0
                    THEN Checkpoint_save_model(self, hist, svd)
                    ELSE svd,
          raised |-> "none"]

\* The host appended rec = net.history[-1] before it calls the hook.
Checkpoint_on_epoch_end(rec) ==
    /\ Len(history) < MaxEpochs
    /\ hook' = "on_epoch_end"
    /\ LET out == Checkpoint_epoch_end(cp, Append(history, rec), verbose,
                                       sunk, saved) IN
         /\ history' = out.history
         /\ sunk' = out.sunk
         /\ saved' = out.saved
         /\ raised' = out.raised
    /\ UNCHANGED <<es, verbose, begun_at, pmvars, cp>>

\* ------------------------------------------------------- specifications
MaxAt == 2

Patterns ==
    {One(Glob(linear_star_weight)),
     One(StartsWithLinear),
     List(<<Glob(linear_dot_star), Glob(star_weight)>>),
     List(<<Glob(star_bias), Glob(linear_weight)>>),
     List(<<Glob(dense_q)>>),
     List(<<>>)}
Fns == {"noop", "freeze_parameter", "unfreeze_parameter"}
Ats == {IntAt(k) : k \in -1..MaxAt} \cup {EvenEpoch}
Schedules == {"None", "my_sched"}
Names == <<linear_weight, linear_bias, conv_weight>>
ParamLists ==
    {<<>>} \cup {[i \in 1..3 |-> [name |-> Names[i], requires_grad |-> g]] :
                    g \in BOOLEAN}
Histories == {[i \in 1..n |-> NoKeys] : n \in 0..MaxEpochs}

DefaultES == EarlyStopping_init(1, 0, "rel", TRUE, "print")
DefaultCP == Checkpoint_init(MonitorKey("valid_loss_best"), "noop")
DefaultPM == ParamMapper_init(One(Glob(linear_star_weight)), "noop", IntAt(1), "None")

InitES ==
    /\ es \in {EarlyStopping_init(p, t, m, l, s) :
                  p \in 1..MaxPatience, t \in 0..MaxThreshold,
                  m \in ThresholdModes, l \in BOOLEAN, s \in Sinks}
    /\ history = <<>>
    /\ verbose \in BOOLEAN
    /\ hook = "__init__"
    /\ raised = "none"
    /\ sunk = <<>>
    /\ begun_at = -1
    /\ pm = DefaultPM
    /\ initialized = FALSE
    /\ params = <<>>
    /\ applied = <<>>
    /\ calls = <<>>
    /\ cp = DefaultCP
    /\ saved = <<>>

NextES ==
    \/ EarlyStopping_on_train_begin
    \/ \E rec \in EpochRecords : EarlyStopping_on_epoch_end(rec)

SpecES == InitES /\ [][NextES]_vars

\* A host that makes no further on_epoch_end call in a run once the stop
\* signal was raised: its next call is the on_train_begin of a new run.
EarlyStopping_host_epoch_end(rec) ==
    /\ raised # "KeyboardInterrupt"
    /\ EarlyStopping_on_epoch_end(rec)

NextESHost ==
    \/ EarlyStopping_on_train_begin
    \/ \E rec \in EpochRecords : EarlyStopping_host_epoch_end(rec)

SpecESHost == InitES /\ [][NextESHost]_vars

InitPM ==
    /\ pm \in {ParamMapper_init(pt, fn, at, sc) :
                  pt \in Patterns, fn \in Fns, at \in Ats, sc \in Schedules}
              \cup {Freezer_init(pt) : pt \in Patterns}
    /\ initialized = FALSE
    /\ params \in ParamLists
    /\ applied = <<>>
    /\ calls = <<>>
    /\ cp = DefaultCP
    /\ saved = <<>>
    /\ history = <<>>
    /\ hook = "__init__"
    /\ raised = "none"
    /\ es = DefaultES
    /\ verbose = FALSE
    /\ sunk = <<>>
    /\ begun_at = -1

NextPM ==
    \/ ParamMapper_do_initialize
    \/ \E hist \in Histories : ParamMapper_on_epoch_begin(hist)

SpecPM == InitPM /\ [][NextPM]_vars

\* The records a scoring callback leaves: each key absent or present
CheckpointRecords ==
    UNION {[keys -> {0, 1}] \cup {r \in [keys -> {0, 1, 5}] :
                                     "valid_loss_best" \in keys} :
              keys \in SUBSET {"train_loss_best", "valid_loss_best"}}

InitCP ==
    /\ cp \in {Checkpoint_init(m, s) :
                  m \in {MonitorNone, MonitorKey("valid_loss_best"), MonitorAllBest},
                  s \in {"noop", "print"}}
    /\ saved = <<>>
    /\ history = <<>>
    /\ verbose \in BOOLEAN
    /\ hook = "__init__"
    /\ raised = "none"
    /\ sunk = <<>>
    /\ es = DefaultES
    /\ begun_at = -1
    /\ pm = DefaultPM
    /\ initialized = FALSE
    /\ params = <<>>
    /\ applied = <<>>
    /\ calls = <<>>

NextCP == \E rec \in CheckpointRecords : Checkpoint_on_epoch_end(rec)

SpecCP == InitCP /\ [][NextCP]_vars

\* ------------------------------------------------- EarlyStopping: claims
LastRec == history[Len(history)]
HasScore == Len(history) > 0 /\ es.monitor \in DOMAIN LastRec
LastScore == LastRec[es.monitor]

\* The scores of the epochs that ended since the last on_train_begin
\* (defined when each of them recorded the monitored value).
RunLength == Len(history) - begun_at
RunScores == [i \in 1..RunLength |-> history[begun_at + i]["valid_loss"]]
RunHasScores ==
    /\ begun_at >= 0
    /\ \A i \in 1..RunLength : "valid_loss" \in DOMAIN history[begun_at + i]

\* The improvement rule in the words of the specification: strictly below
\* the threshold when lower is better, strictly above it otherwise.
Improves(score, t, lower) ==
    IF lower
    THEN t.kind = "inf" \/ (t.kind = "num" /\ score * Den < t.val)
    ELSE t.kind = "-inf" \/ (t.kind = "num" /\ score * Den > t.val)

\* A step that is an on_epoch_end call on a record that holds the score,
\* made after an on_train_begin.
ScoredEpochEnd ==
    /\ hook' = "on_epoch_end"
    /\ Len(history') = Len(history) + 1
    /\ es.monitor \in DOMAIN history'[Len(history')]
    /\ es.dynamic_threshold_.kind # "None"
NewScore == history'[Len(history')][es.monitor]

\* C1: after on_train_begin, an epoch end raises the stop signal if and only
\* if misses_ equals patience after that epoch's update; with patience 2,
\* lower_is_better and scores 5, 6, 7 the stop comes at the end of epoch 3
\* and not earlier.
C1_StopExactlyAtPatience ==
    /\ (hook = "on_epoch_end" /\ HasScore /\ begun_at >= 0)
           => (raised = "KeyboardInterrupt" <=> es.misses_ = es.patience)
    /\ (hook = "on_epoch_end" /\ RunHasScores
            /\ es.patience = 2 /\ es.lower_is_better)
           => /\ RunScores \in {<<5>>, <<5, 6>>} => raised = "none"
              /\ RunScores = <<5, 6, 7>> =>
                     raised = "KeyboardInterrupt" /\ es.misses_ = 2

C1_Witness ==
    /\ hook = "on_epoch_end" /\ RunHasScores
    /\ es.patience = 2 /\ es.lower_is_better
    /\ RunScores = <<5, 6, 7>>
    /\ raised = "KeyboardInterrupt"

\* C2: an on_epoch_end call adds exactly 1 to misses_ when the score is not
\* an improvement over dynamic_threshold_ and sets misses_ to 0 when it is.
C2_MissCount ==
    [][ScoredEpochEnd =>
          IF Improves(NewScore, es.dynamic_threshold_, es.lower_is_better)
          THEN es'.misses_ = 0
          ELSE es'.misses_ = es.misses_ + 1]_vars

\* A run in which misses_ went 0, 1, 0.
C2_Witness ==
    /\ hook = "on_epoch_end" /\ RunHasScores
    /\ es.lower_is_better /\ es.threshold = 0
    /\ RunScores = <<6, 7, 5>>
    /\ es.misses_ = 0

\* C5: a score equal to dynamic_threshold_ is not an improvement, in either
\* direction: the epoch increments misses_ and leaves the threshold.
C5_TieIsNoImprovement ==
    [][(ScoredEpochEnd /\ es.dynamic_threshold_.kind = "num"
            /\ NewScore * Den = es.dynamic_threshold_.val)
          => /\ es'.misses_ = es.misses_ + 1
             /\ es'.dynamic_threshold_ = es.dynamic_threshold_]_vars

C5_Witness ==
    /\ hook = "on_epoch_end" /\ HasScore
    /\ es.dynamic_threshold_.kind = "num"
    /\ LastScore * Den = es.dynamic_threshold_.val
    /\ es.misses_ >= 1

\* C6: once an epoch with score s counted as an improvement, a following
\* epoch whose score equals s or is worse than s is a miss, for every s.
C6_NoBetterScoreIsAMiss ==
    [][(/\ hook = "on_epoch_end" /\ raised = "none" /\ HasScore
        /\ es.misses_ = 0
        /\ ScoredEpochEnd
        /\ IF es.lower_is_better
           THEN NewScore >= LastScore ELSE NewScore <= LastScore)
          => es'.misses_ = es.misses_ + 1]_vars

\* delta for the score of the last epoch, in units of 1/Den
C7_Delta ==
    IF es.threshold_mode = "rel" THEN es.threshold * LastScore ELSE es.threshold

\* C7: after an improving epoch with score s the threshold is s - delta
\* (lower is better) or s + delta, delta being threshold * s in 'rel' mode
\* and threshold in 'abs' mode.
C7_NewThreshold ==
    (hook = "on_epoch_end" /\ raised = "none" /\ HasScore /\ es.misses_ = 0)
        => es.dynamic_threshold_ =
               Num(IF es.lower_is_better
                   THEN LastScore * Den - C7_Delta
                   ELSE LastScore * Den + C7_Delta)

\* An improving epoch in 'rel' mode whose threshold lies away from the score.
C7_Witness ==
    /\ hook = "on_epoch_end" /\ raised = "none" /\ HasScore /\ es.misses_ = 0
    /\ es.threshold_mode = "rel" /\ es.threshold = 1 /\ LastScore = 6
    /\ es.dynamic_threshold_ = Num(IF es.lower_is_better THEN 6 ELSE 18)

\* C8: on_train_begin with an unknown threshold_mode raises ValueError and
\* leaves misses_ and dynamic_threshold_; otherwise it sets misses_ to 0 and
\* dynamic_threshold_ to +infinity (lower is better) or -infinity.
C8_TrainBegin ==
    [][hook' = "on_train_begin" =>
          IF es.threshold_mode \in {"rel", "abs"}
          THEN /\ raised' = "none"
               /\ es'.misses_ = 0
               /\ es'.dynamic_threshold_ =
                      IF es.lower_is_better THEN PosInf ELSE NegInf
          ELSE /\ raised' = "ValueError"
               /\ es'.misses_ = es.misses_
               /\ es'.dynamic_threshold_ = es.dynamic_threshold_]_vars

\* on_train_begin after a run that was stopped.
C8_Witness ==
    /\ hook = "on_train_begin" /\ raised = "none"
    /\ sunk # <<>>
    /\ es.misses_ = 0 /\ es.dynamic_threshold_.kind \in {"inf", "-inf"}

\* C10: on_epoch_end on a record without the monitored key fails with the
\* lookup error, raises no stop signal and leaves misses_ and
\* dynamic_threshold_.
C10_MissingMonitor ==
    [][(/\ hook' = "on_epoch_end"
        /\ Len(history') = Len(history) + 1
        /\ es.monitor \notin DOMAIN history'[Len(history')])
          => /\ raised' = "KeyError"
             /\ es'.misses_ = es.misses_
             /\ es'.dynamic_threshold_ = es.dynamic_threshold_
             /\ sunk' = sunk]_vars

\* A missing score in a run that has already counted a miss.
C10_Witness ==
    /\ hook = "on_epoch_end" /\ raised = "KeyError" /\ ~ HasScore
    /\ begun_at >= 0 /\ es.misses_ >= 1

\* --------------------------------------------------- ParamMapper: claims
\* The name matches at least one of the patterns.
Matches(name) ==
    \E i \in DOMAIN pm.patterns.items : pattern_fn(pm.patterns.items[i], name)
\* How often the last on_epoch_begin applied a function to the parameter.
TimesApplied(name) == Cardinality({i \in DOMAIN applied : applied[i][2] = name})

\* C3: with a list of patterns, on_epoch_begin applies the function exactly
\* once to every parameter whose name matches at least one pattern, also
\* when the name matches several patterns.
C3_AppliedOnce ==
    hook = "on_epoch_begin" =>
        \A j \in DOMAIN params :
            Matches(params[j].name) => TimesApplied(params[j].name) = 1

\* C4: with an integer at = k >= 1 and no schedule, on_epoch_begin applies fn
\* to the matched parameters when len(net.history) = k and the no-op in
\* every other call.
C4_AtEpochOnly ==
    (hook = "on_epoch_begin" /\ pm.schedule = "_default_schedule"
        /\ pm.at.kind = "partial_epoch_at")
        => /\ \A i \in DOMAIN applied :
                 applied[i][1] = IF Len(history) = pm.at.epoch
                                 THEN pm.fn ELSE "noop"
           /\ \A j \in DOMAIN params :
                 Matches(params[j].name) <=> TimesApplied(params[j].name) >= 1

\* at = 1 at epoch counter 1: the parameters are frozen.
C4_Witness ==
    /\ hook = "on_epoch_begin" /\ pm.schedule = "_default_schedule"
    /\ pm.at = EpochAt(1) /\ Len(history) = 1
    /\ pm.fn = "freeze_parameter"
    /\ \E i \in DOMAIN applied : applied[i] = <<"freeze_parameter", linear_weight>>
    /\ \E j \in DOMAIN params : ~ params[j].requires_grad

\* C9: initialize with an integer at <= 0 raises ValueError, and no
\* on_epoch_begin runs on such an instance; with an integer at >= 1 it
\* returns and at becomes a predicate that holds exactly when the epoch
\* counter equals that integer.
C9_Initialize ==
    [][/\ (hook' = "initialize" /\ pm.at.kind = "int") =>
             IF pm.at.epoch <= 0
             THEN raised' = "ValueError" /\ ~ initialized'
             ELSE /\ raised' = "none" /\ initialized'
                  /\ pm'.at.kind = "partial_epoch_at"
                  /\ \A h \in Histories :
                         at_call(pm'.at, h) <=> Len(h) = pm.at.epoch
       /\ hook' = "on_epoch_begin" => pm.at.kind # "int"]_vars

C9_Witness ==
    /\ hook = "initialize" /\ raised = "ValueError"
    /\ pm.at = IntAt(0) /\ ~ initialized

\* ------------------------------------------- EarlyStopping: more claims
\* C11: an epoch end that raises the stop signal has sent the stop message
\* to the sink; for a sink other than print whatever net.verbose is, for
\* print when net.verbose is set.
C11_MessageBeforeStop ==
    [][(hook' = "on_epoch_end" /\ raised' = "KeyboardInterrupt"
            /\ (es.sink # "print" \/ verbose))
          => sunk' = Append(sunk, StopText(es))]_vars

\* C18: a non-improving epoch leaves dynamic_threshold_ unchanged.
C18_ThresholdFrame ==
    [][(ScoredEpochEnd
            /\ ~ Improves(NewScore, es.dynamic_threshold_, es.lower_is_better))
          => es'.dynamic_threshold_ = es.dynamic_threshold_]_vars

\* Two misses in a row against the threshold of the first epoch (score 5).
C18_Witness ==
    /\ hook = "on_epoch_end" /\ RunHasScores
    /\ es.lower_is_better /\ es.threshold_mode = "abs" /\ es.threshold = 1
    /\ RunScores = <<5, 6, 7>>
    /\ es.dynamic_threshold_ = Num(5 * Den - 1)

\* C19: after on_train_begin the first epoch with a score is an improvement,
\* and the stop signal is not raised before the end of epoch patience + 1 of
\* the run.
C19_NoEarlyStop ==
    [][/\ (ScoredEpochEnd /\ es.dynamic_threshold_.kind \in {"inf", "-inf"})
             => es'.misses_ = 0 /\ raised' = "none"
       /\ (hook' = "on_epoch_end" /\ raised' = "KeyboardInterrupt")
             => Len(history') - begun_at' >= es'.patience + 1]_vars

\* A second run, stopped at the end of its epoch patience + 1.
C19_Witness ==
    /\ hook = "on_epoch_end" /\ raised = "KeyboardInterrupt"
    /\ begun_at >= 1 /\ HasScore
    /\ "valid_loss" \in DOMAIN history[begun_at]
    /\ RunLength = es.patience + 1

\* C20: with a host that ends the run at the stop signal, 0 <= misses_ <=
\* patience, and misses_ = patience only in the state the stop was raised in.
C20_MissesBounded ==
    /\ 0 <= es.misses_ /\ es.misses_ <= es.patience
    /\ es.misses_ = es.patience
           => hook = "on_epoch_end" /\ raised = "KeyboardInterrupt"

C20_Witness ==
    /\ es.misses_ = es.patience /\ es.patience = 2
    /\ raised = "KeyboardInterrupt"

\* ---------------------------------------------- ParamMapper: more claims
\* The position of a parameter in the module's enumeration, and of the
\* first call on it in the last on_epoch_begin.
Enumerated(name) == CHOOSE j \in DOMAIN params : params[j].name = name
FirstApplied(name) ==
    CHOOSE i \in DOMAIN applied :
        /\ applied[i][2] = name
        /\ \A h \in DOMAIN applied : applied[h][2] = name => i <= h
AppliedNames == {applied[i][2] : i \in DOMAIN applied}

\* C12: on_epoch_begin applies the function to the matched parameters in the
\* module's enumeration order: if p is enumerated before q, p receives its
\* (first) call before q.
C12_EnumerationOrder ==
    hook = "on_epoch_begin" =>
        \A p, q \in AppliedNames :
            Enumerated(p) < Enumerated(q) => FirstApplied(p) < FirstApplied(q)

\* The Freezer of the scenario, initialized
FreezerLinearWeight ==
    [Freezer_init(List(<<Glob(linear_star_weight)>>)) EXCEPT
        !.at = EpochAt(1), !.schedule = "_default_schedule"]

\* C13: on_epoch_begin leaves every parameter whose name matches no pattern,
\* raises nothing, and changes nothing when nothing matches or the module has
\* no parameters; Freezer('linear*.weight') at epoch 1 freezes linear.weight
\* of linear.weight, linear.bias, conv.weight and nothing else.
C13_Frame ==
    [][hook' = "on_epoch_begin" =>
          /\ raised' = "none"
          /\ Len(params') = Len(params)
          /\ \A j \in DOMAIN params :
                 ~ Matches(params[j].name) => params'[j] = params[j]
          /\ (\A j \in DOMAIN params : ~ Matches(params[j].name))
                 => params' = params /\ applied' = <<>>
          /\ (/\ pm = FreezerLinearWeight /\ Len(history') = 1
              /\ Len(params) = 3
              /\ \A j \in DOMAIN params : params[j].requires_grad)
                 => \A j \in DOMAIN params :
                        params'[j].requires_grad = (params[j].name # linear_weight)
      ]_vars

C13_Witness ==
    /\ hook = "on_epoch_begin" /\ pm = FreezerLinearWeight /\ Len(history) = 1
    /\ Len(params) = 3
    /\ \A j \in DOMAIN params :
           params[j].requires_grad = (params[j].name # linear_weight)

\* C14: with a schedule supplied, initialize succeeds whatever at and fn are,
\* and every call of on_epoch_begin applies the function schedule(net)
\* returns.
C14_ScheduleSupersedes ==
    [][/\ (hook' = "initialize" /\ pm.schedule = "my_sched")
             => raised' = "none" /\ initialized'
       /\ (hook' = "on_epoch_begin" /\ pm.schedule = "my_sched")
             => /\ raised' = "none"
                /\ \A i \in DOMAIN applied' : applied'[i][1] = my_sched(history')
      ]_vars

\* The epoch counter rose strictly from call i to call j.
Increasing(i, j) == \A h \in i..(j - 1) : calls[h].epoch < calls[h + 1].epoch

\* C17: with an integer at = k and no schedule, fn is applied in at most one
\* on_epoch_begin of a run in which the epoch counter strictly increases, and
\* it is applied again whenever the counter, after a reset, is k again.
C17_OncePerRun ==
    (pm.schedule = "_default_schedule" /\ pm.at.kind = "partial_epoch_at"
        /\ pm.fn # "noop")
        => /\ \A i, j \in DOMAIN calls :
                 (i < j /\ Increasing(i, j))
                     => ~ (calls[i].map_fn = pm.fn /\ calls[j].map_fn = pm.fn)
           /\ \A j \in DOMAIN calls :
                 calls[j].epoch = pm.at.epoch => calls[j].map_fn = pm.fn

\* fn applied at counter 1, the counter reset, and fn applied at 1 again.
C17_Witness ==
    /\ pm.schedule = "_default_schedule" /\ pm.at = EpochAt(1)
    /\ pm.fn = "freeze_parameter"
    /\ Len(calls) = 3
    /\ calls[1] = [epoch |-> 1, map_fn |-> "freeze_parameter"]
    /\ calls[2] = [epoch |-> 2, map_fn |-> "noop"]
    /\ calls[3] = [epoch |-> 1, map_fn |-> "freeze_parameter"]
    /\ applied # <<>>


\* ---------------------------------------------------- Checkpoint: claims
\* save_model was called for the last epoch.
SavedLastEpoch == saved # <<>> /\ saved[Len(saved)].epoch = Len(history)

\* C15: after every on_epoch_end of Checkpoint that completes, the last
\* epoch record holds a boolean event_cp that is true exactly when
\* save_model was called in that call; with monitor None it is true in every
\* epoch, with a string monitor it is the truth value of that key in the last
\* record, with a callable monitor it is the truth value of monitor(net).
C15_EventFlag ==
    [][(hook' = "on_epoch_end" /\ raised' = "none")
          => LET rec == history'[Len(history')] IN
             /\ "event_cp" \in DOMAIN rec
             /\ rec.event_cp \in BOOLEAN
             /\ rec.event_cp <=> (saved' # saved)
             /\ saved' # saved
                  => saved' = Append(saved, saved'[Len(saved')])
                     /\ saved'[Len(saved')].epoch = Len(history')
             /\ cp.monitor.kind = "None" => rec.event_cp
             /\ cp.monitor.kind = "str"
                  => (rec.event_cp <=> rec[cp.monitor.key] # 0)
             /\ cp.monitor.kind = "callable"
                  => (rec.event_cp <=> (/\ rec["train_loss_best"] # 0
                                        /\ rec["valid_loss_best"] # 0))]_vars

\* A string monitor: the first epoch's value was falsy and nothing was saved,
\* the second epoch's value 5 is truthy without being True and was saved.
C15_Witness ==
    /\ hook = "on_epoch_end" /\ raised = "none"
    /\ cp.monitor.kind = "str"
    /\ Len(history) = 2
    /\ "event_cp" \in DOMAIN history[1] /\ ~ history[1].event_cp
    /\ history[1][cp.monitor.key] = 0
    /\ LastRec[cp.monitor.key] = 5 /\ LastRec.event_cp
    /\ Len(saved) = 1 /\ SavedLastEpoch

\* C16: on_epoch_end of Checkpoint with a string monitor that the last epoch
\* record does not hold fails with SkorchException, calls no save_model,
\* sends nothing to the sink and records no event_cp for that epoch.
C16_MonitorNotFound ==
    [][(/\ hook' = "on_epoch_end"
        /\ Len(history') = Len(history) + 1
        /\ cp.monitor.kind = "str"
        /\ cp.monitor.key \notin DOMAIN history'[Len(history')])
          => /\ raised' = "SkorchException"
             /\ saved' = saved
             /\ sunk' = sunk
             /\ "event_cp" \notin DOMAIN history'[Len(history')]]_vars

\* The call failed in the second epoch, after a checkpoint in the first.
C16_Witness ==
    /\ hook = "on_epoch_end" /\ raised = "SkorchException"
    /\ cp.monitor.kind = "str"
    /\ Len(history) = 2
    /\ cp.monitor.key \notin DOMAIN LastRec
    /\ "event_cp" \notin DOMAIN LastRec
    /\ Len(saved) = 1 /\ saved[1].epoch = 1 /\ Len(sunk) = 1
=============================================================================
